---------------------------- MODULE Spec2Model ----------------------------
(***************************************************************************)
(* Analytics core of the Red Flags Profits site generator:                 *)
(*   DataLoader._compute_daily_totals / _calculate_growth_metrics /        *)
(*   _get_monthly_averages / _pct_change       (site_generator/data_loader)*)
(*   ChartDataProcessor._calculate_exponential_fit   (chart_data_processor)*)
(*   BackgroundSparklineGenerator._process_data / _generate_coordinates    *)
(*                                                 (background_sparklines) *)
(*                                                                         *)
(* Numbers.  float64 values are modelled in fixed point: a finite float x  *)
(* is the integer x*SCALE, and the three non-finite outcomes numpy can     *)
(* produce (+inf, -inf, nan) are separate tags.  Results whose magnitude   *)
(* exceeds MaxFix overflow to +-inf, as a float64 overflows.  Dates are    *)
(* day ordinals, day 1 being 2024-01-01.                                   *)
(***************************************************************************)
EXTENDS Integers, Sequences, FiniteSets, TLC

VARIABLES
  pc,            \* position in the operation being run
  df,            \* the snapshot table given to calculate_metrics
  daily_totals,  \* the DailyTotal series (_compute_daily_totals' result)
  gsrc,          \* what _calculate_growth_metrics read: source kind, end points
  growth,        \* growth_rate, doubling_time, daily_accumulation
  pct,           \* _pct_change: its arguments and its result
  ts,            \* the time series given to the chart processor and sparklines
  fit,           \* _calculate_exponential_fit's result
  spark,         \* _process_data / _generate_coordinates' results
  chart,         \* the chart payload: trend line, inflation series, summary
  dashboard,     \* dashboard_data, the record _prepare_all_data returns
  runs           \* the runs of _prepare_all_data made so far, and the last result

vars == <<pc, df, daily_totals, gsrc, growth, pct, ts, fit, spark, chart, dashboard, runs>>

\* the state of the components an operation does not touch
loaderVars == <<df, daily_totals, gsrc, growth>>

chartVars == <<ts, fit, spark>>

siteVars == <<chart, dashboard, runs>>

-----------------------------------------------------------------------------
(* Fixed-point float64 *)

SCALE == 10 * 10

MaxFix == SCALE * 100000

Abs(x) == IF x < 0 THEN -x ELSE x

Sign(x) == IF x < 0 THEN -1 ELSE IF x > 0 THEN 1 ELSE 0

\* integer division rounding toward zero
TruncDiv(a, b) == Sign(a) * Sign(b) * (Abs(a) \div Abs(b))

Num(v) == [k |-> "num", v |-> v]

PosInf == [k |-> "inf", v |-> 1]

NegInf == [k |-> "inf", v |-> -1]

NaN == [k |-> "nan", v |-> 0]

IsNum(x) == x.k = "num"

IsNaN(x) == x.k = "nan"

IsInf(x) == x.k = "inf"

FSign(x) == Sign(x.v)

\* a finite result, or the infinity it overflows to
Norm(v) == IF v > MaxFix THEN PosInf ELSE IF v < -MaxFix THEN NegInf ELSE Num(v)

FromInt(n) == Num(n * SCALE)

FNeg(a) == IF IsNaN(a) THEN NaN ELSE [k |-> a.k, v |-> -a.v]

FAdd(a, b) ==
  IF IsNaN(a) \/ IsNaN(b) THEN NaN
  ELSE IF IsInf(a) /\ IsInf(b) THEN (IF a.v = b.v THEN a ELSE NaN)
  ELSE IF IsInf(a) THEN a
  ELSE IF IsInf(b) THEN b
  ELSE Norm(a.v + b.v)

FSub(a, b) == FAdd(a, FNeg(b))

FMul(a, b) ==
  IF IsNaN(a) \/ IsNaN(b) THEN NaN
  ELSE IF IsInf(a) \/ IsInf(b)
    THEN (IF FSign(a) * FSign(b) = 0 THEN NaN
          ELSE IF FSign(a) * FSign(b) > 0 THEN PosInf ELSE NegInf)
  ELSE IF a.v # 0 /\ Abs(b.v) > (MaxFix * SCALE) \div Abs(a.v)
    THEN (IF FSign(a) * FSign(b) > 0 THEN PosInf ELSE NegInf)
  ELSE Norm(TruncDiv(a.v * b.v, SCALE))

\* numpy scalar division: x/0 is +-inf, 0/0 is nan, nothing is raised
FDiv(a, b) ==
  IF IsNaN(a) \/ IsNaN(b) THEN NaN
  ELSE IF IsInf(a) /\ IsInf(b) THEN NaN
  ELSE IF IsInf(a) THEN (IF FSign(a) * (IF b.v < 0 THEN -1 ELSE 1) > 0 THEN PosInf ELSE NegInf)
  ELSE IF IsInf(b) THEN Num(0)
  ELSE IF b.v = 0
    THEN (IF a.v = 0 THEN NaN ELSE IF a.v > 0 THEN PosInf ELSE NegInf)
  ELSE Norm(TruncDiv(a.v * SCALE, b.v))

\* comparisons; every comparison with nan is false
FLt(a, b) ==
  /\ ~IsNaN(a) /\ ~IsNaN(b)
  /\ IF IsInf(a) THEN a.v < 0 /\ ~(IsInf(b) /\ b.v < 0)
     ELSE IF IsInf(b) THEN b.v > 0
     ELSE a.v < b.v

FGt(a, b) == FLt(b, a)

FLe(a, b) == ~IsNaN(a) /\ ~IsNaN(b) /\ ~FLt(b, a)

FGe(a, b) == FLe(b, a)

\* Python/numpy truth value: zero is false, everything else (nan included) true
Truthy(a) == ~(IsNum(a) /\ a.v = 0)

\* np.log(2), in units of 1/SCALE
Ln2 == 69

RECURSIVE LnReduce(_, _)
\* halve or double v into [SCALE, 2*SCALE), counting the powers of two
LnReduce(v, k) ==
  IF v >= 2 * SCALE THEN LnReduce(v \div 2, k + 1)
  ELSE IF v < SCALE THEN LnReduce(v * 2, k - 1)
  ELSE <<v, k>>

\* ln of a finite positive fixed-point value: k*ln2 + 2*atanh((m-1)/(m+1))
LnFix(v) ==
  LET mk == LnReduce(v, 0)
      m  == mk[1]
      z  == ((m - SCALE) * SCALE) \div (m + SCALE)
      z3 == (z * z * z) \div (SCALE * SCALE)
      z5 == (z3 * z * z) \div (SCALE * SCALE)
  IN  mk[2] * Ln2 + 2 * (z + z3 \div 3 + z5 \div 5)

RECURSIVE Pow2(_)
Pow2(k) == IF k = 0 THEN 1 ELSE 2 * Pow2(k - 1)

\* largest argument whose exponential is still finite in the model
ExpMaxArg == 15 * Ln2

\* exp of a finite fixed-point value x >= 0, x <= ExpMaxArg: 2^k * e^r
ExpPos(x) ==
  LET k  == x \div Ln2
      r  == x - k * Ln2
      r2 == (r * r) \div SCALE
      r3 == (r2 * r) \div SCALE
      r4 == (r3 * r) \div SCALE
  IN  Pow2(k) * (SCALE + r + r2 \div 2 + r3 \div 6 + r4 \div 24)

\* np.log
FLog(x) ==
  IF IsNaN(x) THEN NaN
  ELSE IF IsInf(x) THEN (IF x.v > 0 THEN PosInf ELSE NaN)
  ELSE IF x.v < 0 THEN NaN
  ELSE IF x.v = 0 THEN NegInf
  ELSE Num(LnFix(x.v))

\* np.exp
FExp(x) ==
  IF IsNaN(x) THEN NaN
  ELSE IF IsInf(x) THEN (IF x.v > 0 THEN PosInf ELSE Num(0))
  ELSE IF x.v > ExpMaxArg THEN PosInf
  ELSE IF x.v < -ExpMaxArg THEN Num(0)
  ELSE IF x.v >= 0 THEN Norm(ExpPos(x.v))
  ELSE Num((SCALE * SCALE) \div ExpPos(-x.v))

\* numpy float64 power base ** (p/q), p/q > 0 an exact rational exponent:
\* a negative base with a non-integer exponent is nan (no exception)
FPow(base, p, q) ==
  IF IsNaN(base) THEN NaN
  ELSE IF IsInf(base)
    THEN (IF base.v > 0 THEN PosInf
          ELSE IF p % q # 0 THEN PosInf
          ELSE IF (p \div q) % 2 = 1 THEN NegInf ELSE PosInf)
  ELSE IF base.v = 0 THEN Num(0)
  ELSE IF base.v < 0
    THEN (IF p % q # 0 THEN NaN
          ELSE LET mag == FExp(Norm(TruncDiv(LnFix(-base.v) * p, q)))
               IN  IF (p \div q) % 2 = 1 THEN FNeg(mag) ELSE mag)
  ELSE FExp(Norm(TruncDiv(LnFix(base.v) * p, q)))

\* np.clip(x, lo, hi) = minimum(maximum(x, lo), hi); nan propagates
Clip(x, lo, hi) ==
  IF IsNaN(x) THEN NaN
  ELSE IF FLt(x, lo) THEN lo
  ELSE IF FGt(x, hi) THEN hi
  ELSE x

-----------------------------------------------------------------------------
(* Small helpers on sets and sequences *)

SetMin(S) == CHOOSE m \in S : \A x \in S : m <= x

RECURSIVE SortSet(_)
\* the elements of a finite set of integers, ascending
SortSet(S) == IF S = {} THEN <<>> ELSE <<SetMin(S)>> \o SortSet(S \ {SetMin(S)})

RECURSIVE InsertByDate(_, _)
\* insert row r after every row whose date is <= r.date (stable)
InsertByDate(s, r) ==
  IF s = <<>> THEN <<r>>
  ELSE IF s[Len(s)].date <= r.date THEN Append(s, r)
  ELSE Append(InsertByDate(SubSeq(s, 1, Len(s) - 1), r), s[Len(s)])

RECURSIVE SortByDate(_)
\* DataFrame.sort_values("date")
SortByDate(s) ==
  IF s = <<>> THEN <<>>
  ELSE InsertByDate(SortByDate(SubSeq(s, 1, Len(s) - 1)), s[Len(s)])

\* Series.max() of a non-empty sequence of integers
SeqMax(s) == CHOOSE m \in {s[i] : i \in DOMAIN s} : \A i \in DOMAIN s : s[i] <= m

-----------------------------------------------------------------------------
(* DataLoader._compute_daily_totals *)

\* groupby("crawl_date"): the distinct keys, sorted
GroupKeys(t) == SortSet({t[i].crawl_date : i \in DOMAIN t})

RECURSIVE SumWorthFrom(_, _, _)
SumWorthFrom(t, d, i) ==
  IF i > Len(t) THEN 0
  ELSE (IF t[i].crawl_date = d THEN t[i].finalWorth ELSE 0) + SumWorthFrom(t, d, i + 1)

\* mutant: each person counted once per date (duplicates dropped before the sum)
SumWorthDedup(t, d) ==
  SumWorthFrom(
    [i \in DOMAIN t |->
       IF \E j \in 1..(i - 1) :
            t[j].crawl_date = t[i].crawl_date /\ t[j].personName = t[i].personName
         THEN [t[i] EXCEPT !.finalWorth = 0] ELSE t[i]],
    d, 1)

\* total_wealth=("finalWorth", "sum") of the group dated d
SumWorth(t, d) == SumWorthFrom(t, d, 1)

\* mutant: "count" (the rows of the group) in place of "nunique"
NCount(t, d) == Cardinality({j \in DOMAIN t : t[j].crawl_date = d})

\* billionaire_count=("personName", "nunique") of the group dated d
NUnique(t, d) ==
  Cardinality({t[i].personName : i \in {j \in DOMAIN t : t[j].crawl_date = d}})

\* groupby(...).agg(...).reset_index().rename(...)
GroupAgg(t) ==
  LET keys == GroupKeys(t)
  IN  [i \in 1..Len(keys) |->
         [date |-> keys[i],
          total_wealth |-> SumWorth(t, keys[i]),
          billionaire_count |-> NUnique(t, keys[i])]]

ComputeDailyTotalsOf(t) == SortByDate(GroupAgg(t))

-----------------------------------------------------------------------------
(* Calendar: Series.dt.to_period("M") on day ordinals (day 1 = 2024-01-01) *)

DaysInMonth(p) ==
  LET m == (p % 12) + 1
      y == 2024 + (p \div 12)
  IN  IF m = 2 THEN (IF y % 4 = 0 THEN 29 ELSE 28)
      ELSE IF m \in {4, 6, 9, 11} THEN 30 ELSE 31

RECURSIVE PeriodFrom(_, _)
PeriodFrom(d, p) ==
  IF d <= DaysInMonth(p) THEN p ELSE PeriodFrom(d - DaysInMonth(p), p + 1)

\* the calendar month of day d, counted in months from 2024-01
PeriodOf(d) == PeriodFrom(d, 0)

-----------------------------------------------------------------------------
(* DataLoader._get_monthly_averages *)

RECURSIVE SumField(_, _, _)
\* sum of total_wealth (f = 1) or billionaire_count (f = 2) over the rows at idx
SumField(rows, idx, f) ==
  IF idx = {} THEN 0
  ELSE LET i == SetMin(idx)
       IN  (IF f = 1 THEN rows[i].total_wealth ELSE rows[i].billionaire_count)
             + SumField(rows, idx \ {i}, f)

\* the mean of n integers whose sum is s, as a float
MeanFix(s, n) == TruncDiv(s * SCALE, n)

MonthlyGroups(dt) ==
  LET periods == SortSet({PeriodOf(dt[i].date) : i \in DOMAIN dt})
  IN  [g \in 1..Len(periods) |->
         LET idx == {i \in DOMAIN dt : PeriodOf(dt[i].date) = periods[g]}
         IN  [date |-> dt[SetMin(idx)].date,
              total_wealth |-> MeanFix(SumField(dt, idx, 1), Cardinality(idx)),
              billionaire_count |-> MeanFix(SumField(dt, idx, 2), Cardinality(idx))]]

GetMonthlyAverages(dt) == SortByDate(MonthlyGroups(dt))

\* the daily rows as floats
DailyAsSource(dt) ==
  [i \in DOMAIN dt |->
     [date |-> dt[i].date,
      total_wealth |-> dt[i].total_wealth * SCALE,
      billionaire_count |-> dt[i].billionaire_count * SCALE]]

-----------------------------------------------------------------------------
(* DataLoader._calculate_growth_metrics *)

MonthlyThreshold == 60

CagrFloor == -50

CagrCeil == 100

\* mutant: the threshold included (>= 60)
UseMonthlyAtThreshold(n) == n >= MonthlyThreshold

\* len(daily_totals) > 60
UseMonthly(n) == n > MonthlyThreshold

GrowthSource(dt) == IF UseMonthly(Len(dt)) THEN GetMonthlyAverages(dt) ELSE DailyAsSource(dt)

DefaultGrowth ==
  [growth_rate |-> Num(0), doubling_time |-> PosInf, daily_accumulation |-> Num(0)]

\* the unclamped ((end_val / start_val) ** (1 / years_diff) - 1) * 100, with
\* years_diff = days_diff / 365.25, so 1 / years_diff = 1461 / (4 * days_diff)
RawCagr(start_val, end_val, days_diff) ==
  FMul(FSub(FPow(FDiv(Num(end_val), Num(start_val)), 1461, 4 * days_diff), Num(SCALE)),
       FromInt(100))

\* mutant: the clamp left out
CagrUnclamped(start_val, end_val, days_diff) == RawCagr(start_val, end_val, days_diff)

Cagr(start_val, end_val, days_diff) ==
  Clip(RawCagr(start_val, end_val, days_diff), FromInt(CagrFloor), FromInt(CagrCeil))

\* mutant: the cagr > 0 guard left out
DoublingTimeNoGuard(cagr) ==
  FDiv(Num(Ln2), FLog(FAdd(Num(SCALE), FDiv(cagr, FromInt(100)))))

\* np.log(2) / np.log(1 + cagr / 100) if cagr > 0 else float("inf")
DoublingTime(cagr) ==
  IF FGt(cagr, Num(0))
    THEN FDiv(Num(Ln2), FLog(FAdd(Num(SCALE), FDiv(cagr, FromInt(100)))))
    ELSE PosInf

\* (end_val - start_val) / (1e3 * days_diff) if cagr > 0 else 0.0
DailyAccumulation(cagr, start_val, end_val, days_diff) ==
  IF FGt(cagr, Num(0))
    THEN FDiv(FSub(Num(end_val), Num(start_val)), FromInt(1000 * days_diff))
    ELSE Num(0)

\* mutant: only the day difference guarded
DegenerateDaysOnly(start_val, days_diff) == days_diff = 0

\* not days_diff or not start_val
Degenerate(start_val, days_diff) == days_diff = 0 \/ start_val = 0

\* what _calculate_growth_metrics reads: the source chosen and its end points
GrowthInputs(dt) ==
  IF Len(dt) < 2
    THEN [kind |-> "short", rows |-> 0, start_val |-> 0, end_val |-> 0, days_diff |-> 0]
  ELSE LET source == GrowthSource(dt)
       IN  [kind |-> IF UseMonthly(Len(dt)) THEN "monthly" ELSE "daily",
            rows |-> Len(source),
            start_val |-> source[1].total_wealth,
            end_val |-> source[Len(source)].total_wealth,
            days_diff |-> source[Len(source)].date - source[1].date]

CalculateGrowthMetricsOf(dt) ==
  LET in == GrowthInputs(dt)
  IN  IF in.kind = "short" \/ Degenerate(in.start_val, in.days_diff)
        THEN DefaultGrowth
      ELSE LET cagr == Cagr(in.start_val, in.end_val, in.days_diff)
           IN  [growth_rate |-> cagr,
                doubling_time |-> DoublingTime(cagr),
                daily_accumulation |->
                  DailyAccumulation(cagr, in.start_val, in.end_val, in.days_diff)]

-----------------------------------------------------------------------------
(* DataLoader._pct_change *)

\* mutant: the zero guard left out
PctChangeNoGuard(new, old) == FMul(FDiv(FSub(new, old), old), FromInt(100))

\* ((new - old) / old * 100) if old else 0
PctChange(new, old) ==
  IF Truthy(old) THEN FMul(FDiv(FSub(new, old), old), FromInt(100)) ELSE Num(0)

-----------------------------------------------------------------------------
(* ChartDataProcessor._calculate_exponential_fit                            *)
(* The regression is carried out in exact rational arithmetic on the        *)
(* logarithms: b, log_a and r_squared are fractions [num, den], den > 0.    *)

Rat(n, d) == [num |-> n, den |-> d]

\* df["days_from_start"] = (df["date"] - df.iloc[0]["date"]).dt.days
WithDaysFromStart(rows) ==
  [i \in DOMAIN rows |->
     [date |-> rows[i].date,
      total_wealth |-> rows[i].total_wealth,
      billionaire_count |-> rows[i].billionaire_count,
      days_from_start |-> rows[i].date - rows[1].date]]

\* mutant: the rows with a total of zero kept
ValidFitRowsNonNegative(rows) == SelectSeq(rows, LAMBDA r : FGe(r.total_wealth, Num(0)))

\* df[df["total_wealth"] > 0]
ValidFitRows(rows) == SelectSeq(rows, LAMBDA r : FGt(r.total_wealth, Num(0)))

\* x = days_from_start, y = np.log(total_wealth)
FitX(valid) == [i \in DOMAIN valid |-> valid[i].days_from_start]

FitY(valid) == [i \in DOMAIN valid |-> FLog(valid[i].total_wealth).v]

RECURSIVE SumSeq(_)
SumSeq(s) == IF s = <<>> THEN 0 ELSE Head(s) + SumSeq(Tail(s))

Products(x, y) == [i \in DOMAIN x |-> x[i] * y[i]]

Squares(x) == [i \in DOMAIN x |-> x[i] * x[i]]

\* np.polyfit(x, y, 1): the least-squares line, slope SlopeNum/SlopeDen and
\* intercept InterceptNum/(n * SlopeDen)
SlopeDen(x) == Len(x) * SumSeq(Squares(x)) - SumSeq(x) * SumSeq(x)

SlopeNum(x, y) == Len(x) * SumSeq(Products(x, y)) - SumSeq(x) * SumSeq(y)

InterceptNum(x, y) == SumSeq(y) * SlopeDen(x) - SlopeNum(x, y) * SumSeq(x)

\* (y - y_pred) ** 2 summed, times (n * SlopeDen)^2, y_pred = b * x + log_a
SsRes(x, y) ==
  LET n == Len(x)
  IN  SumSeq(Squares([i \in DOMAIN x |->
        n * SlopeDen(x) * y[i] - (n * SlopeNum(x, y) * x[i] + InterceptNum(x, y))]))

\* (y - np.mean(y)) ** 2 summed, times (n * SlopeDen)^2
SsTot(x, y) ==
  LET n == Len(x)
  IN  SumSeq(Squares([i \in DOMAIN x |-> SlopeDen(x) * (n * y[i] - SumSeq(y))]))

\* mutant: the ss_tot > 0 guard left out
RSquaredNoGuard(ss_res, ss_tot) == Rat(ss_tot - ss_res, ss_tot)

\* 1 - (ss_res / ss_tot) if ss_tot > 0 else 0
RSquared(ss_res, ss_tot) == IF ss_tot > 0 THEN Rat(ss_tot - ss_res, ss_tot) ELSE Rat(0, 1)

DegenerateFit ==
  [kind |-> "degenerate", a |-> FromInt(1), b |-> Rat(0, 1), r_squared |-> Rat(0, 1),
   annualGrowthRate |-> Num(0), ss_tot |-> 0, used |-> <<>>]

CalculateExponentialFitOf(rows) ==
  LET valid == ValidFitRows(rows)
  IN  IF Len(valid) < 2 THEN DegenerateFit
      ELSE LET x == FitX(valid)
               y == FitY(valid)
               n == Len(valid)
           IN  [kind |-> "fitted",
                \* a = np.exp(log_a)
                a |-> FExp(Num(TruncDiv(InterceptNum(x, y), n * SlopeDen(x)))),
                b |-> Rat(SlopeNum(x, y), SlopeDen(x)),
                r_squared |-> RSquared(SsRes(x, y), SsTot(x, y)),
                \* (np.exp(b * 365.25) - 1) * 100
                annualGrowthRate |->
                  FMul(FSub(FExp(Norm(TruncDiv(SlopeNum(x, y) * 1461, 4 * SlopeDen(x)))),
                            Num(SCALE)),
                       FromInt(100)),
                ss_tot |-> SsTot(x, y),
                used |-> valid]

-----------------------------------------------------------------------------
(* ChartDataProcessor: the frame, trend line, inflation series, time range   *)
(* and summary of prepare_wealth_timeline_data                               *)

RECURSIVE DayOfMonthFrom(_, _)
DayOfMonthFrom(d, p) ==
  IF d <= DaysInMonth(p) THEN d ELSE DayOfMonthFrom(d - DaysInMonth(p), p + 1)

\* date.strftime("%Y-%m-%d"): the year, month and day of month of day d
Strftime(d) == <<2024 + (PeriodOf(d) \div 12), (PeriodOf(d) % 12) + 1, DayOfMonthFrom(d, 0)>>

\* df = time_series_df.copy().sort_values("date"), with the date_str and
\* days_from_start columns added
ChartFrame(rows) ==
  LET sorted == SortByDate(rows)
  IN  [i \in DOMAIN sorted |->
         [f \in DOMAIN sorted[i] \cup {"date_str", "days_from_start"} |->
            CASE f = "date_str" -> Strftime(sorted[i].date)
              [] f = "days_from_start" -> sorted[i].date - sorted[1].date
              [] OTHER -> sorted[i][f]]]

\* mutant: no copy, the columns are added to the caller's frame
CallerFrameInPlace(rows) == ChartFrame(rows)

\* the caller's frame after prepare_wealth_timeline_data: the columns went to
\* the copy, the frame is as it was
CallerFrame(rows) == rows

\* nominal_data
NominalData(frame) ==
  [i \in DOMAIN frame |-> [x |-> frame[i].date_str, y |-> frame[i].total_wealth]]

\* the number of samples of the trend line
TrendSamples == 100

\* mutant: the number of rows after the first in place of the largest offset
DaysRangeByRows(frame) == Len(frame) - 1

\* df["days_from_start"].max()
DaysRange(frame) == SeqMax([i \in DOMAIN frame |-> frame[i].days_from_start])

\* int(days) for days = np.linspace(0, days_range, 100)[k], which is the
\* fraction k * days_range / 99
TrendDay(k, days_range) == (k * days_range) \div (TrendSamples - 1)

\* fit_params["a"] * np.exp(fit_params["b"] * days), b the fraction num/den
TrendValue(a, b, k, days_range) ==
  FMul(a, FExp(Norm(TruncDiv(b.num * k * days_range, b.den * (TrendSamples - 1)))))

\* _generate_trend_line
GenerateTrendLine(frame, fit_params) ==
  LET days_range == DaysRange(frame)
      start_date == frame[1].date
  IN  [j \in 1..TrendSamples |->
         [x |-> Strftime(start_date + TrendDay(j - 1, days_range)),
          y |-> TrendValue(fit_params.a, fit_params.b, j - 1, days_range)]]

\* the return value None
None == [kind |-> "None"]

InflationColumns == <<"cpi_u", "pce">>

\* col in df.columns and not df[col].isna().all()
Available(frame, columns, col) ==
  col \in columns /\ \E i \in DOMAIN frame : ~IsNaN(frame[i][col])

\* df[inflation_column].dropna().iloc[0]
BaseInflation(frame, col) ==
  frame[CHOOSE i \in DOMAIN frame :
          ~IsNaN(frame[i][col]) /\ \A j \in 1..(i - 1) : IsNaN(frame[j][col])][col]

\* mutant: every row with a value kept, the non-positive ones too
InflationRowKeptAny(v) == ~IsNaN(v)

\* pd.notna(row[inflation_column]) and row[inflation_column] > 0
InflationRowKept(v) == ~IsNaN(v) /\ FGt(v, Num(0))

\* _prepare_inflation_adjusted_data
PrepareInflationAdjustedData(frame, col) ==
  LET base_inflation == BaseInflation(frame, col)
      kept == SelectSeq(frame, LAMBDA row : InflationRowKept(row[col]))
  IN  [kind |-> "series",
       data |-> [i \in DOMAIN kept |->
                   [x |-> kept[i].date_str,
                    y |-> FMul(kept[i].total_wealth, FDiv(base_inflation, kept[i][col]))]],
       \* inflation_column.upper()
       inflationType |-> IF col = "cpi_u" THEN "CPI_U" ELSE "PCE",
       baseValue |-> base_inflation]

\* _get_inflation_data
GetInflationData(frame, columns) ==
  IF Available(frame, columns, InflationColumns[1])
    THEN PrepareInflationAdjustedData(frame, InflationColumns[1])
  ELSE IF Available(frame, columns, InflationColumns[2])
    THEN PrepareInflationAdjustedData(frame, InflationColumns[2])
  ELSE None

\* _get_time_range
GetTimeRange(frame) ==
  [start |-> frame[1].date_str, end |-> frame[Len(frame)].date_str,
   totalDays |-> frame[Len(frame)].date - frame[1].date]

\* (latest["total_wealth"] - first["total_wealth"]) / first["total_wealth"] * 100
TotalIncrease(latest, first) == FMul(FDiv(FSub(latest, first), first), FromInt(100))

\* _get_summary_stats
GetSummaryStats(frame, fit_params) ==
  [totalIncrease |-> TotalIncrease(frame[Len(frame)].total_wealth, frame[1].total_wealth),
   timespan |-> <<frame[1].date_str, frame[Len(frame)].date_str>>,
   dataPoints |-> Len(frame),
   startValue |-> frame[1].total_wealth,
   endValue |-> frame[Len(frame)].total_wealth,
   exponentialGrowthRate |-> fit_params.annualGrowthRate]

\* prepare_wealth_timeline_data on a non-empty frame with the given columns
PrepareWealthTimelineDataOf(rows, columns) ==
  LET frame == SubSeq(ChartFrame(rows), 1, Len(rows))
      fit_params == CalculateExponentialFitOf(frame)
  IN  [kind |-> "chart",
       data |-> NominalData(frame),
       trendLine |-> GenerateTrendLine(frame, fit_params),
       fitParams |-> fit_params,
       inflationData |-> GetInflationData(frame, columns),
       timeRange |-> GetTimeRange(frame),
       summary |-> GetSummaryStats(frame, fit_params)]

-----------------------------------------------------------------------------
(* DataLoader.calculate_metrics and _compute_all_metrics                     *)

\* Config.TRILLION, the number of wealth units in a trillion: data_backend
\* is not part of the sources, the model takes a thousand units
TRILLION == 1000

\* x.total_wealth / Config.TRILLION
ToTrillions(w) == Num(TruncDiv(w * SCALE, TRILLION))

\* daily_totals.assign(total_wealth=lambda x: x.total_wealth / Config.TRILLION)
TimeSeriesOf(dt) ==
  [i \in DOMAIN dt |->
     [date |-> dt[i].date,
      total_wealth |-> ToTrillions(dt[i].total_wealth),
      billionaire_count |-> FromInt(dt[i].billionaire_count)]]

\* (wealth_trillions * 1000) / count if count else 0
AvgWealth(wealth_trillions, count) ==
  IF count # 0 THEN FDiv(FMul(wealth_trillions, FromInt(1000)), FromInt(count)) ELSE Num(0)

\* mutant: the time of the run in place of the last date of the data
LastUpdatedFromClock(data_end) == data_end + runs.n

\* "last_updated": data_end
LastUpdated(data_end) == data_end

\* _compute_all_metrics(first, latest, daily_totals) and the timespan entries
\* of calculate_metrics, for a non-empty daily_totals
CalculateMetricsOf(dt) ==
  LET first == dt[1]
      latest == dt[Len(dt)]
      count == latest.billionaire_count
      wealth_trillions == ToTrillions(latest.total_wealth)
      avg_wealth == AvgWealth(wealth_trillions, count)
      first_wealth == ToTrillions(first.total_wealth)
      first_count == first.billionaire_count
      first_avg == AvgWealth(first_wealth, first_count)
      growth_metrics == CalculateGrowthMetricsOf(dt)
  IN  [billionaire_count |-> count,
       total_wealth_trillions |-> wealth_trillions,
       average_wealth_billions |-> avg_wealth,
       wealth_increase_pct |-> PctChange(wealth_trillions, first_wealth),
       billionaire_increase_count |-> count - first_count,
       avg_wealth_increase_pct |-> PctChange(avg_wealth, first_avg),
       growth_rate |-> growth_metrics.growth_rate,
       doubling_time |-> growth_metrics.doubling_time,
       daily_accumulation |-> growth_metrics.daily_accumulation,
       last_updated |-> LastUpdated(latest.date),
       data_start_date |-> first.date,
       data_end_date |-> latest.date,
       data_days_span |-> latest.date - first.date,
       data_points |-> Len(dt)]

-----------------------------------------------------------------------------
(* BackgroundSparklineGenerator                                             *)
(* The time axis is exact: a normalized day offset is the fraction          *)
(* days/maxdays, grid sample g is the fraction g/interp_length, and they    *)
(* are compared by cross-multiplication.  0/0 (a single date) is nan.       *)

card_width == 280

card_height == 120

target_points == 70

padding == 15

wind_len == 40

\* the oversampling factor of the grid and the stride of the final slice
oversample == 10

\* self.window = np.exp(-np.linspace(-2, 2, self.wind_len) ** 2), entry k (0-based)
WindowAt(k) ==
  LET t == -2 * SCALE + (4 * SCALE * k) \div (wind_len - 1)
  IN  FExp(Num(-((t * t) \div SCALE))).v

\* the window as a tuple, entry k (0-based) at position k + 1
Window == SubSeq([i \in 1..wind_len |-> WindowAt(i - 1)], 1, wind_len)

\* the three configurations of generate_all_backgrounds
Configs ==
  {[type |-> "single", columns |-> <<"total_wealth">>, svg_type |-> "wealth"],
   [type |-> "single", columns |-> <<"billionaire_count">>, svg_type |-> "count"],
   [type |-> "ratio", columns |-> <<"total_wealth", "billionaire_count">>,
    svg_type |-> "average"]}

\* data.dropna(subset=cols)[cols + ["date"]]
DropNa(data, cols) ==
  SelectSeq(data, LAMBDA r : \A c \in DOMAIN cols : ~IsNaN(r[cols[c]]))

\* denom = valid_data[cols[1]].replace(0, 1)
ReplaceZero(x) == IF IsNum(x) /\ x.v = 0 THEN FromInt(1) ELSE x

\* the metric values: num / denom for a ratio, the column itself otherwise
MetricValues(valid, config) ==
  [i \in DOMAIN valid |->
     IF config.type = "ratio"
       THEN FDiv(valid[i][config.columns[1]], ReplaceZero(valid[i][config.columns[2]]))
       ELSE valid[i][config.columns[1]]]

\* a missing date (NaT): day 0, before every date of the calendar
NaT == 0

\* days = (valid_data["date"] - valid_data["date"].iloc[0]).dt.days, a whole
\* number of days, nan where the date or the first date is missing
DaysOf(valid) ==
  [i \in DOMAIN valid |->
     IF valid[i].date = NaT \/ valid[1].date = NaT
       THEN [k |-> "nan", v |-> 0]
       ELSE [k |-> "num", v |-> valid[i].date - valid[1].date]]

\* days_norm = days / days.max(): the fraction n/d, nan where it is 0/0 and
\* where days is nan; days.max() skips the nan and is nan when all are
DaysNorm(days) ==
  LET present == {days[i].v : i \in {h \in DOMAIN days : days[h].k = "num"}}
      days_max == IF present = {} THEN 0
                  ELSE CHOOSE m \in present : \A d \in present : d <= m
  IN  [i \in DOMAIN days |->
         IF days[i].k = "nan" \/ present = {}
           THEN [k |-> "nan", n |-> 0, d |-> 0]
         ELSE IF days_max = 0
           THEN (IF days[i].v = 0 THEN [k |-> "nan", n |-> 0, d |-> 0]
                 ELSE [k |-> "inf", n |-> Sign(days[i].v), d |-> 0])
           ELSE [k |-> "num", n |-> days[i].v, d |-> days_max]]

\* interp_length = 10 * self.target_points - (self.wind_len - 1)
InterpLength == oversample * target_points - (wind_len - 1)

\* grid = np.arange(-wind_len, interp_length + wind_len) / interp_length:
\* the numerators of the samples
GridFirst == -wind_len

GridStop == InterpLength + wind_len

GridLen == GridStop - GridFirst

\* grid sample g/InterpLength against the axis point xp; false against nan
GridLt(g, xp) == xp.k = "num" /\ g * xp.d < xp.n * InterpLength

GridGt(g, xp) == xp.k = "num" /\ g * xp.d > xp.n * InterpLength

\* key >= arr[i] of the linear search; false against nan
GridGe(g, xp) == xp.k = "num" /\ g * xp.d >= xp.n * InterpLength

\* np.interp at grid sample g for 2 to 4 axis points of which some are nan:
\* the index j comes from the linear search of binary_search_with_guess,
\* and a nan slope gives fp[j] when fp[j] = fp[j + 1] and nan otherwise
InterpUnordered(g, xp, fp) ==
  LET n == Len(xp)
  IN  IF GridGt(g, xp[n]) THEN fp[n]
      ELSE IF GridLt(g, xp[1]) THEN fp[1]
      ELSE LET stop == {m \in 2..n : ~GridGe(g, xp[m])}
               j == IF stop = {} THEN n ELSE SetMin(stop) - 1
           IN  IF j = n THEN fp[j]
               ELSE IF GridGe(g, xp[j]) /\ ~GridGt(g, xp[j]) THEN fp[j]
               ELSE IF xp[j].k = "num" /\ xp[j + 1].k = "num"
                 THEN Num(fp[j].v +
                          TruncDiv((fp[j + 1].v - fp[j].v)
                                     * (g * xp[j].d - xp[j].n * InterpLength),
                                   InterpLength * (xp[j + 1].n - xp[j].n)))
               ELSE IF fp[j] = fp[j + 1] THEN fp[j] ELSE NaN

\* np.interp(x, xp, fp) at grid sample g, xp increasing when it has 2+ points
Interp(g, xp, fp) ==
  LET n == Len(xp)
  IN  IF n = 1
        THEN (IF GridLt(g, xp[1]) THEN fp[1]
              ELSE IF GridGt(g, xp[1]) THEN fp[n] ELSE fp[1])
      ELSE IF GridGt(g, xp[n]) THEN fp[n]
      ELSE IF GridLt(g, xp[1]) THEN fp[1]
      ELSE LET j == CHOOSE i \in 1..n :
                      /\ ~GridLt(g, xp[i])
                      /\ \A h \in (i + 1)..n : GridLt(g, xp[h])
           IN  IF j = n THEN fp[j]
               ELSE IF ~GridGt(g, xp[j]) THEN fp[j]
               ELSE \* slope * (x - xp[j]) + fp[j]
                    Num(fp[j].v +
                        TruncDiv((fp[j + 1].v - fp[j].v)
                                   * (g * xp[j].d - xp[j].n * InterpLength),
                                 InterpLength * (xp[j + 1].n - xp[j].n)))

RECURSIVE ConvTerms(_, _, _)
\* sum over k' >= k of window[k'] * v[n - k'] (0-based), v of length Len(v)
ConvTerms(v, n, k) ==
  IF k >= wind_len \/ k > n THEN 0
  ELSE (IF n - k < Len(v) THEN Window[k + 1] * v[n - k + 1].v ELSE 0) + ConvTerms(v, n, k + 1)

\* np.convolve(self.window, interp_vals)[n]
ConvolveAt(v, n) == Num(TruncDiv(ConvTerms(v, n, 0), SCALE))

\* the same for interpolated values of which some are nan: nan when a term
\* of the sum is
ConvolveNaNAt(v, n) ==
  IF \E k \in 0..(wind_len - 1) : k <= n /\ n - k < Len(v) /\ IsNaN(v[n - k + 1])
    THEN NaN
    ELSE ConvolveAt(v, n)

ConvolveLen(v) == wind_len + Len(v) - 1

\* mutant: only the head trimmed (smoothed[wind_len::10])
SliceStopUntrimmed(len) == len

\* the stop of smoothed[wind_len : -wind_len : 10]
SliceStop(len) == len - wind_len

\* the number of samples of a[start:stop:step]
SliceCount(start, stop, step) ==
  IF stop > start THEN (stop - start + step - 1) \div step ELSE 0

\* _process_data
ProcessDataOf(data, config) ==
  LET valid == DropNa(data, config.columns)
  IN  IF valid = <<>>
        THEN [empty |-> TRUE, valid_rows |-> 0, zero_over_zero |-> FALSE,
              grid_len |-> 0, conv_len |-> 0,
              data |-> [j \in 1..target_points |-> Num(0)]]
      ELSE LET values == SubSeq(MetricValues(valid, config), 1, Len(valid))
               days == SubSeq(DaysOf(valid), 1, Len(valid))
               days_norm == SubSeq(DaysNorm(days), 1, Len(valid))
               nan_axis == Len(valid) > 1 /\ \E i \in DOMAIN days_norm : days_norm[i].k = "nan"
               interp_vals ==
                 SubSeq([i \in 1..GridLen |->
                           IF nan_axis
                             THEN InterpUnordered(GridFirst + i - 1, days_norm, values)
                             ELSE Interp(GridFirst + i - 1, days_norm, values)],
                        1, GridLen)
               nan_vals == \E i \in DOMAIN interp_vals : IsNaN(interp_vals[i])
               conv_len == ConvolveLen(interp_vals)
               count == SliceCount(wind_len, SliceStop(conv_len), oversample)
           IN  [empty |-> FALSE, valid_rows |-> Len(valid),
                zero_over_zero |-> \E i \in DOMAIN days_norm : days_norm[i].k = "nan",
                grid_len |-> Len(interp_vals), conv_len |-> conv_len,
                data |-> [j \in 1..count |->
                            IF nan_vals
                              THEN ConvolveNaNAt(interp_vals, wind_len + oversample * (j - 1))
                              ELSE ConvolveAt(interp_vals, wind_len + oversample * (j - 1))]]

\* data.min() / data.max(): nan if any entry is nan
SeqMinF(s) ==
  IF \E i \in DOMAIN s : IsNaN(s[i]) THEN NaN
  ELSE CHOOSE m \in {s[i] : i \in DOMAIN s} : \A i \in DOMAIN s : FLe(m, s[i])

SeqMaxF(s) ==
  IF \E i \in DOMAIN s : IsNaN(s[i]) THEN NaN
  ELSE CHOOSE m \in {s[i] : i \in DOMAIN s} : \A i \in DOMAIN s : FLe(s[i], m)

\* mutant: the minimum not subtracted
NormalizeByRange(data) ==
  LET data_min == SeqMinF(data)
      data_max == SeqMaxF(data)
  IN  IF FGt(data_max, data_min)
        THEN [i \in DOMAIN data |-> FDiv(data[i], FSub(data_max, data_min))]
        ELSE [i \in DOMAIN data |-> Num(0)]

\* mutant: the data_max > data_min guard left out
NormalizeNoGuard(data) ==
  LET data_min == SeqMinF(data)
      data_max == SeqMaxF(data)
  IN  [i \in DOMAIN data |-> FDiv(FSub(data[i], data_min), FSub(data_max, data_min))]

\* (data - data_min) / (data_max - data_min) if data_max > data_min else zeros
Normalize(data) ==
  LET data_min == SeqMinF(data)
      data_max == SeqMaxF(data)
  IN  IF FGt(data_max, data_min)
        THEN [i \in DOMAIN data |-> FDiv(FSub(data[i], data_min), FSub(data_max, data_min))]
        ELSE [i \in DOMAIN data |-> Num(0)]

\* np.linspace(0, self.card_width, len(data))[i], i 0-based
LinspaceWidth(i, len) ==
  IF len = 1 THEN Num(0) ELSE Num(TruncDiv(card_width * SCALE * i, len - 1))

\* _generate_coordinates: the (x, y) pairs
GenerateCoordinatesOf(data) ==
  LET normalized == Normalize(data)
  IN  [i \in DOMAIN data |->
         [x |-> LinspaceWidth(i - 1, Len(data)),
          y |-> FSub(FromInt(card_height - padding),
                     FMul(normalized[i], FromInt(card_height - 2 * padding)))]]

\* gen_sparkline up to the coordinates: _process_data, then _generate_coordinates
GenSparklineOf(data, config) ==
  LET r == ProcessDataOf(data, config)
      clean_data == SubSeq(r.data, 1, Len(r.data))
  IN  SubSeq(GenerateCoordinatesOf(clean_data), 1, Len(clean_data))

\* COLOR_SCHEMES.get(svg_type, ("#404040", "#1a1a1a"))
ColorScheme(svg_type) ==
  CASE svg_type = "wealth" -> <<"#404040", "#1a1a1a">>
    [] svg_type = "count" -> <<"#3a3a3a", "#222222">>
    [] svg_type = "average" -> <<"#383838", "#1f1f1f">>
    [] OTHER -> <<"#404040", "#1a1a1a">>

\* _create_svg: the document is its two colours and the polygon's points,
\* the sparkline between the two bottom corners of the card
CreateSvg(coords, svg_type) ==
  [light |-> ColorScheme(svg_type)[1],
   dark |-> ColorScheme(svg_type)[2],
   points |-> <<[x |-> FromInt(0), y |-> FromInt(card_height)]>> \o coords
                \o <<[x |-> FromInt(card_width), y |-> FromInt(card_height)]>>]

\* gen_sparkline
GenSparklineSvg(data, config) == CreateSvg(GenSparklineOf(data, config), config.svg_type)

ConfigFor(svg_type) == CHOOSE config \in Configs : config.svg_type = svg_type

\* generate_all_backgrounds: one sparkline for each configured metric
GenerateAllBackgroundsOf(time_series) ==
  [total_wealth |-> GenSparklineSvg(time_series, ConfigFor("wealth")),
   billionaire_count |-> GenSparklineSvg(time_series, ConfigFor("count")),
   average_wealth |-> GenSparklineSvg(time_series, ConfigFor("average"))]

-----------------------------------------------------------------------------
(* Frames that may lack columns.  A frame is its set of column names and    *)
(* its rows, each row having exactly those columns; selecting a column that  *)
(* is not there raises KeyError.                                             *)

KeyError == [kind |-> "KeyError"]

\* pd.DataFrame(): no column, no row
EmptyFrame == [columns |-> {}, rows |-> <<>>]

\* the rows cut down to the given columns
Project(rows, columns) == [i \in DOMAIN rows |-> [c \in columns |-> rows[i][c]]]

\* the columns line 31 selects: data.dropna(subset=cols)[cols + ["date"]]
SelectedColumns(config) == {config.columns[i] : i \in DOMAIN config.columns} \cup {"date"}

\* mutant: the empty frame answered with zeros before any column is selected
ProcessDataFrameEmptyFirst(frame, config) ==
  IF frame.rows = <<>> THEN [kind |-> "ok", data |-> [j \in 1..target_points |-> Num(0)]]
  ELSE IF ~(SelectedColumns(config) \subseteq frame.columns) THEN KeyError
  ELSE [kind |-> "ok", data |-> ProcessDataOf(frame.rows, config).data]

\* _process_data on a frame: the selection of line 31 comes first
ProcessDataFrame(frame, config) ==
  IF ~(SelectedColumns(config) \subseteq frame.columns) THEN KeyError
  ELSE [kind |-> "ok", data |-> ProcessDataOf(frame.rows, config).data]

\* the configurations in the order of the configs dict
ConfigOrder == <<ConfigFor("wealth"), ConfigFor("count"), ConfigFor("average")>>

\* generate_all_backgrounds: ts = dashboard_data.get("time_series",
\* pd.DataFrame()), then gen_sparkline for each configuration; the first
\* KeyError ends the call
GenerateAllBackgroundsFrame(dashboard_data) ==
  LET frame == IF "time_series" \in DOMAIN dashboard_data
                 THEN dashboard_data.time_series ELSE EmptyFrame
  IN  IF \E i \in DOMAIN ConfigOrder : ProcessDataFrame(frame, ConfigOrder[i]) = KeyError
        THEN KeyError
        ELSE [kind |-> "ok", data |-> GenerateAllBackgroundsOf(frame.rows)]

\* the columns _compute_daily_totals groups by and aggregates
SnapshotColumns == {"crawl_date", "finalWorth", "personName"}

\* _compute_daily_totals on a frame: groupby("crawl_date") and agg raise
\* KeyError for a column that is not there
ComputeDailyTotalsFrame(frame) ==
  IF ~(SnapshotColumns \subseteq frame.columns) THEN KeyError
  ELSE [kind |-> "ok", data |-> ComputeDailyTotalsOf(frame.rows)]

-----------------------------------------------------------------------------
(* RedFlagsSiteGenerator._prepare_all_data                                   *)
(* The wealth_equivalencies entry of the analysis is computed from a table   *)
(* of data_backend.config, which is not part of the sources: it is left out. *)

\* growth_rate > 8.0
AccelerationThreshold == 8

\* dashboard_data["analysis"]["growth_metrics"]
AnalysisOf(growth_rate) ==
  [real_growth_rate |-> growth_rate,
   inflation_adjusted |-> TRUE,
   acceleration |-> IF FGt(growth_rate, FromInt(AccelerationThreshold))
                      THEN "increasing" ELSE "stable"]

\* the columns of the time series calculate_metrics returns
TimeSeriesColumns == {"date", "total_wealth", "billionaire_count"}

\* the record _prepare_all_data returns for a table with at least one row
PrepareAllDataOf(table) ==
  LET dt == ComputeDailyTotalsOf(table)
      metrics == CalculateMetricsOf(dt)
      time_series == TimeSeriesOf(dt)
  IN  [kind |-> "dashboard",
       metrics |-> metrics,
       time_series |-> time_series,
       charts |-> PrepareWealthTimelineDataOf(time_series, TimeSeriesColumns),
       background_sparklines |-> GenerateAllBackgroundsOf(time_series),
       analysis |-> AnalysisOf(metrics.growth_rate)]

-----------------------------------------------------------------------------
(* Inputs *)

\* longest snapshot table drawn for calculate_metrics
MaxSnapshots == 3

\* longest short daily series drawn for _calculate_growth_metrics
MaxSeriesLen == 3

\* the long series have MonthlyThreshold - 1 .. MonthlyThreshold + LongExtra rows
LongExtra == 2

Names == {"A", "B"}

SnapshotDates == {1, 2, 367}

SnapshotWorths == {10, 20}

Snapshots == [personName : Names, crawl_date : SnapshotDates, finalWorth : SnapshotWorths]

Snap(n, d, w) == [personName |-> n, crawl_date |-> d, finalWorth |-> w]

\* [(A,2024-01-01,10),(B,2024-01-01,20),(A,2024-01-02,15),(B,2024-01-02,20)]
ScenarioTable == <<Snap("A", 1, 10), Snap("B", 1, 20), Snap("A", 2, 15), Snap("B", 2, 20)>>

\* every table of at most MaxSnapshots snapshots, in every row order
Tables == UNION {[1..n -> Snapshots] : n \in 0..MaxSnapshots}

SeriesDates == {1, 2, 32, 367}

SeriesWealth == {-30000, 0, 30000, 50000}

Row(d, w, c) == [date |-> d, total_wealth |-> w, billionaire_count |-> c]

\* every daily series of at most MaxSeriesLen rows with strictly ascending dates
ShortSeries ==
  UNION {
    {[i \in 1..Cardinality(D) |-> Row(SortSet(D)[i], w[i], 2)] :
       w \in [1..Cardinality(D) -> SeriesWealth]} :
    D \in {X \in SUBSET SeriesDates : Cardinality(X) <= MaxSeriesLen}}

\* n rows from day start on, stride days apart, total_wealth = base + slope * i
LongSeries ==
  {[i \in 1..n |-> Row(start + stride * (i - 1), base + slope * (i - 1), 2)] :
     <<n, start, stride, base, slope>> \in
       ((MonthlyThreshold - 1)..(MonthlyThreshold + LongExtra))
         \X {1, 20} \X {1, 3} \X {-30000, 0, 30000} \X {-50, 0, 50, 100}}

NoInputs == [kind |-> "none", rows |-> 0, start_val |-> 0, end_val |-> 0, days_diff |-> 0]

NoGrowth == [growth_rate |-> NaN, doubling_time |-> NaN, daily_accumulation |-> NaN]

NoPct == [new |-> Num(0), old |-> Num(0), out |-> NaN]

NoFit == [kind |-> "none"]

NoSpark == [kind |-> "none"]

NoChart == [kind |-> "none"]

NoDashboard == [kind |-> "none"]

NoRuns == [n |-> 0, previous |-> NoDashboard]

\* the site generator has not run
SiteIdle == chart = NoChart /\ dashboard = NoDashboard /\ runs = NoRuns

\* the components that take no part in the operation being run
Idle == pct = NoPct /\ ts = <<>> /\ fit = NoFit /\ spark = NoSpark /\ SiteIdle

-----------------------------------------------------------------------------
(* calculate_metrics: aggregate, then the growth metrics *)

Init ==
  /\ pc = "loaded"
  /\ df \in Tables \cup {ScenarioTable}
  /\ daily_totals = <<>>
  /\ gsrc = NoInputs
  /\ growth = NoGrowth
  /\ Idle

\* daily_totals = self._compute_daily_totals(df)
ComputeDailyTotals ==
  /\ pc = "loaded"
  /\ daily_totals' = ComputeDailyTotalsOf(df)
  /\ pc' = "totals"
  /\ UNCHANGED <<siteVars, df, gsrc, growth, pct, chartVars>>

\* daily_totals.date.iloc[0] on an empty frame raises IndexError
TimespanRaises ==
  /\ pc = "totals"
  /\ daily_totals = <<>>
  /\ pc' = "raised"
  /\ UNCHANGED <<siteVars, loaderVars, pct, chartVars>>

\* _compute_all_metrics -> _calculate_growth_metrics(daily_totals)
ComputeAllMetrics ==
  /\ pc = "totals"
  /\ daily_totals # <<>>
  /\ gsrc' = GrowthInputs(daily_totals)
  /\ growth' = CalculateGrowthMetricsOf(daily_totals)
  /\ pc' = "metrics"
  /\ UNCHANGED <<siteVars, df, daily_totals, pct, chartVars>>

Next == ComputeDailyTotals \/ TimespanRaises \/ ComputeAllMetrics

Spec == Init /\ [][Next]_vars

-----------------------------------------------------------------------------
(* _calculate_growth_metrics applied to a daily series *)

\* two rows of one date, which the method accepts: days_diff is 0
SameDateSeries ==
  {<<Row(d, w[1], 2), Row(d, w[2], 2)>> : d \in {1, 32}, w \in SeriesWealth \X SeriesWealth}

InitGrowth ==
  /\ pc = "series"
  /\ df = <<>>
  /\ daily_totals \in ShortSeries \cup LongSeries \cup SameDateSeries
  /\ gsrc = NoInputs
  /\ growth = NoGrowth
  /\ Idle

CalculateGrowthMetrics ==
  /\ pc = "series"
  /\ gsrc' = GrowthInputs(daily_totals)
  /\ growth' = CalculateGrowthMetricsOf(daily_totals)
  /\ pc' = "metrics"
  /\ UNCHANGED <<siteVars, df, daily_totals, pct, chartVars>>

NextGrowth == CalculateGrowthMetrics

SpecGrowth == InitGrowth /\ [][NextGrowth]_vars

-----------------------------------------------------------------------------
(* _pct_change applied to a pair of values *)

\* the arguments are multiples of one half between -PctBound/2 and PctBound/2
PctBound == 5

PctValues == {Num(k * (SCALE \div 2)) : k \in (-PctBound)..PctBound}

InitPct ==
  /\ SiteIdle
  /\ pc = "args"
  /\ df = <<>> /\ daily_totals = <<>> /\ gsrc = NoInputs /\ growth = NoGrowth
  /\ \E n \in PctValues, o \in PctValues : pct = [new |-> n, old |-> o, out |-> NaN]
  /\ ts = <<>> /\ fit = NoFit /\ spark = NoSpark

PctChangeCall ==
  /\ pc = "args"
  /\ pct' = [pct EXCEPT !.out = PctChange(pct.new, pct.old)]
  /\ pc' = "returned"
  /\ UNCHANGED <<siteVars, loaderVars, chartVars>>

NextPct == PctChangeCall

SpecPct == InitPct /\ [][NextPct]_vars

-----------------------------------------------------------------------------
(* _calculate_exponential_fit applied to a time series *)

\* longest time series drawn for the fit
MaxFitLen == 3

FitDates == {1, 2, 3, 5}

\* total_wealth in trillions; zero and negative totals are in the domain
FitWealth == {Num(-SCALE), Num(0), Num(SCALE), Num(2 * SCALE), Num(3 * SCALE)}

TsRow(d, w, c) == [date |-> d, total_wealth |-> w, billionaire_count |-> c]

\* every time series of at most MaxFitLen rows with strictly ascending dates
FitSeries ==
  UNION {
    {[i \in 1..Cardinality(D) |-> TsRow(SortSet(D)[i], w[i], FromInt(2))] :
       w \in [1..Cardinality(D) -> FitWealth]} :
    D \in {X \in SUBSET FitDates : Cardinality(X) <= MaxFitLen}}

InitFit ==
  /\ SiteIdle
  /\ pc = "chart"
  /\ df = <<>> /\ daily_totals = <<>> /\ gsrc = NoInputs /\ growth = NoGrowth
  /\ pct = NoPct
  /\ ts \in FitSeries
  /\ fit = NoFit
  /\ spark = NoSpark

\* fit_params = self._calculate_exponential_fit(df), df carrying days_from_start
CalculateExponentialFit ==
  /\ pc = "chart"
  /\ fit' = CalculateExponentialFitOf(WithDaysFromStart(ts))
  /\ pc' = "fitted"
  /\ UNCHANGED <<siteVars, loaderVars, pct, ts, spark>>

NextFit == CalculateExponentialFit

SpecFit == InitFit /\ [][NextFit]_vars

-----------------------------------------------------------------------------
(* gen_sparkline applied to a time series: _process_data, then               *)
(* _generate_coordinates                                                     *)

\* longest short series drawn for the sparklines
MaxSparkRows == 2

\* the length of the long series drawn for the sparklines
LongSparkRows == 50

SparkDates == {1, 2, 5}

\* (total_wealth, billionaire_count) of a row: total_wealth in trillions and
\* nan where it is missing, a zero count included
SparkPairs ==
  {<<NaN, Num(2 * SCALE)>>, <<Num(SCALE), Num(0)>>,
   <<Num(SCALE), Num(2 * SCALE)>>, <<Num(3 * SCALE), Num(2 * SCALE)>>}

ShortSparkSeries ==
  UNION {
    {[i \in 1..Cardinality(D) |-> TsRow(SortSet(D)[i], p[i][1], p[i][2])] :
       p \in [1..Cardinality(D) -> SparkPairs]} :
    D \in {X \in SUBSET SparkDates : Cardinality(X) <= MaxSparkRows}}

\* one row a day: a constant series, a rising one and a sawtooth
LongSparkSeries ==
  {[i \in 1..LongSparkRows |-> TsRow(i, Num(2 * SCALE + slope * i + saw * (i % 3)), FromInt(2))] :
     <<slope, saw>> \in {<<0, 0>>, <<5, 0>>, <<0, 20>>}}

NewSpark(config) ==
  [kind |-> "input", config |-> config, empty |-> FALSE, valid_rows |-> 0,
   zero_over_zero |-> FALSE, grid_len |-> 0, conv_len |-> 0, data |-> <<>>,
   normalized |-> <<>>, coords |-> <<>>]

InitSpark ==
  /\ SiteIdle
  /\ pc = "sparkline"
  /\ df = <<>> /\ daily_totals = <<>> /\ gsrc = NoInputs /\ growth = NoGrowth
  /\ pct = NoPct
  /\ ts \in ShortSparkSeries \cup LongSparkSeries
  /\ fit = NoFit
  /\ \E config \in Configs : spark = NewSpark(config)

\* clean_data = self._process_data(time_series, config)
ProcessData ==
  /\ pc = "sparkline"
  /\ LET r == ProcessDataOf(ts, spark.config)
     IN  spark' = [spark EXCEPT !.kind = "resampled", !.empty = r.empty,
                                !.valid_rows = r.valid_rows,
                                !.zero_over_zero = r.zero_over_zero,
                                !.grid_len = r.grid_len, !.conv_len = r.conv_len,
                                !.data = r.data]
  /\ pc' = "resampled"
  /\ UNCHANGED <<siteVars, loaderVars, pct, ts, fit>>

\* coords = self._generate_coordinates(clean_data)
GenerateCoordinates ==
  /\ pc = "resampled"
  /\ spark' = [spark EXCEPT !.kind = "coords",
                            !.normalized = Normalize(spark.data),
                            !.coords = GenerateCoordinatesOf(spark.data)]
  /\ pc' = "coords"
  /\ UNCHANGED <<siteVars, loaderVars, pct, ts, fit>>

NextSpark == ProcessData \/ GenerateCoordinates

SpecSpark == InitSpark /\ [][NextSpark]_vars

-----------------------------------------------------------------------------
(* gen_sparkline applied to a series v and to its affine image c*v + d       *)

\* longest series drawn for the affine images
MaxAffineRows == 2

AffineDates == {1, 2, 5}

\* total_wealth of a row: 100.00, 200.00, 300.00
AffineWealth == {Num(100 * SCALE), Num(200 * SCALE), Num(300 * SCALE)}

\* (c, d): a scale c > 0 and an offset d
AffineMaps ==
  {<<Num(SCALE \div 2), Num(0)>>, <<Num(3 * SCALE), Num(0)>>,
   <<Num(SCALE), Num(70 * SCALE)>>, <<Num(3 * SCALE), Num(-50 * SCALE)>>,
   <<Num(SCALE \div 2), Num(70 * SCALE)>>}

\* the rounding allowed between two sparklines: one hundredth of the
\* normalized range, which is card_height - 2 * padding hundredths of a unit
CoordTolerance == card_height - 2 * padding

AffineSeries ==
  UNION {
    {[i \in 1..Cardinality(D) |-> TsRow(SortSet(D)[i], w[i], FromInt(2))] :
       w \in [1..Cardinality(D) -> AffineWealth]} :
    D \in {X \in SUBSET AffineDates : Cardinality(X) <= MaxAffineRows}}

\* the series with total_wealth replaced by c * total_wealth + d
AffineImage(rows, c, d) ==
  [i \in DOMAIN rows |->
     TsRow(rows[i].date, FAdd(FMul(c, rows[i].total_wealth), d), rows[i].billionaire_count)]

WealthConfig == CHOOSE config \in Configs : config.svg_type = "wealth"

InitAffine ==
  /\ SiteIdle
  /\ pc = "affine"
  /\ df = <<>> /\ daily_totals = <<>> /\ gsrc = NoInputs /\ growth = NoGrowth
  /\ pct = NoPct
  /\ ts \in AffineSeries
  /\ fit = NoFit
  /\ \E m \in AffineMaps :
       spark = [kind |-> "affine", config |-> WealthConfig, c |-> m[1], d |-> m[2],
                coords |-> <<>>, image_coords |-> <<>>]

\* gen_sparkline(time_series, config), up to the coordinates
GenSparkline ==
  /\ pc = "affine"
  /\ spark' = [spark EXCEPT !.coords = GenSparklineOf(ts, spark.config)]
  /\ pc' = "drawn"
  /\ UNCHANGED <<siteVars, loaderVars, pct, ts, fit>>

\* gen_sparkline on the series c * v + d
GenSparklineImage ==
  /\ pc = "drawn"
  /\ spark' = [spark EXCEPT !.image_coords =
                 GenSparklineOf(AffineImage(ts, spark.c, spark.d), spark.config)]
  /\ pc' = "both"
  /\ UNCHANGED <<siteVars, loaderVars, pct, ts, fit>>

NextAffine == GenSparkline \/ GenSparklineImage

SpecAffine == InitAffine /\ [][NextAffine]_vars

-----------------------------------------------------------------------------
(* _prepare_all_data, run on a snapshot table and then run again on it       *)

\* the tables have rows on at most MaxPipelineDates dates
MaxPipelineDates == 2

\* the number of times the pipeline is run on the table
MaxRuns == 2

PipelineDates == {1, 2, 5}

\* the finalWorth of each person on a date, zero included
PipelineWorths == {0, 2000, 4000}

\* persons A and B on each date of D, B worth half as much again as A
PipelineTables ==
  UNION {
    {[i \in 1..(2 * Cardinality(D)) |->
        Snap(IF i % 2 = 1 THEN "A" ELSE "B",
             SortSet(D)[(i + 1) \div 2],
             IF i % 2 = 1 THEN w[(i + 1) \div 2] ELSE (3 * w[(i + 1) \div 2]) \div 2)] :
       w \in [1..Cardinality(D) -> PipelineWorths]} :
    D \in {X \in SUBSET PipelineDates : Cardinality(X) <= MaxPipelineDates}}

InitPipeline ==
  /\ pc = "start"
  /\ df \in PipelineTables
  /\ daily_totals = <<>>
  /\ gsrc = NoInputs
  /\ growth = NoGrowth
  /\ Idle

\* dashboard_data = self.data_loader.calculate_metrics(data); on an empty
\* table daily_totals.date.iloc[0] raises IndexError
CalculateMetrics ==
  /\ pc = "start"
  /\ daily_totals' = ComputeDailyTotalsOf(df)
  /\ IF daily_totals' = <<>>
       THEN /\ pc' = "raised"
            /\ UNCHANGED <<gsrc, growth, ts, dashboard>>
       ELSE /\ gsrc' = GrowthInputs(daily_totals')
            /\ growth' = CalculateGrowthMetricsOf(daily_totals')
            /\ ts' = TimeSeriesOf(daily_totals')
            /\ dashboard' = [kind |-> "dashboard",
                             metrics |-> CalculateMetricsOf(daily_totals'),
                             time_series |-> ts',
                             charts |-> None,
                             background_sparklines |-> None,
                             analysis |-> None]
            /\ pc' = "metrics"
  /\ UNCHANGED <<df, pct, fit, spark, chart, runs>>

\* chart_processor.prepare_wealth_timeline_data(dashboard_data.get("time_series"))
PrepareWealthTimelineData ==
  /\ pc = "metrics"
  /\ chart' = PrepareWealthTimelineDataOf(ts, TimeSeriesColumns)
  /\ fit' = chart'.fitParams
  /\ ts' = CallerFrame(ts)
  /\ dashboard' = [dashboard EXCEPT !.charts = chart', !.time_series = ts']
  /\ pc' = "charts"
  /\ UNCHANGED <<loaderVars, pct, spark, runs>>

\* sparkline_gen.generate_all_backgrounds(dashboard_data)
GenerateAllBackgrounds ==
  /\ pc = "charts"
  /\ spark' = GenerateAllBackgroundsOf(dashboard.time_series)
  /\ dashboard' = [dashboard EXCEPT !.background_sparklines = spark']
  /\ pc' = "sparklines"
  /\ UNCHANGED <<loaderVars, pct, ts, fit, chart, runs>>

\* dashboard_data["analysis"] = ...; return dashboard_data
AddAnalysis ==
  /\ pc = "sparklines"
  /\ dashboard' = [dashboard EXCEPT !.analysis = AnalysisOf(dashboard.metrics.growth_rate)]
  /\ runs' = [runs EXCEPT !.n = @ + 1]
  /\ pc' = "done"
  /\ UNCHANGED <<loaderVars, pct, chartVars, chart>>

\* the generator is run again on the same table: what the last run returned
\* is kept for comparison, its locals are gone
RunAgain ==
  /\ pc = "done"
  /\ runs.n < MaxRuns
  /\ runs' = [runs EXCEPT !.previous = dashboard]
  /\ daily_totals' = <<>> /\ gsrc' = NoInputs /\ growth' = NoGrowth
  /\ ts' = <<>> /\ fit' = NoFit /\ spark' = NoSpark
  /\ chart' = NoChart /\ dashboard' = NoDashboard
  /\ pc' = "start"
  /\ UNCHANGED <<df, pct>>

NextPipeline ==
  \/ CalculateMetrics
  \/ PrepareWealthTimelineData
  \/ GenerateAllBackgrounds
  \/ AddAnalysis
  \/ RunAgain

SpecPipeline == InitPipeline /\ [][NextPipeline]_vars

-----------------------------------------------------------------------------
(* The growth-metric, trend-fit and sparkline computations of                *)
(* _prepare_all_data executed in any order on the aggregated series          *)

Tasks == {"growth", "fit", "sparklines"}

InitParallel ==
  /\ pc = "aggregate"
  /\ df \in PipelineTables
  /\ daily_totals = <<>>
  /\ gsrc = NoInputs
  /\ growth = NoGrowth
  /\ Idle

\* _compute_daily_totals and the time series derived from it; the tasks
\* start on a series that has a row
Aggregate ==
  /\ pc = "aggregate"
  /\ daily_totals' = ComputeDailyTotalsOf(df)
  /\ IF daily_totals' = <<>>
       THEN pc' = "raised" /\ UNCHANGED <<ts, dashboard>>
       ELSE /\ ts' = TimeSeriesOf(daily_totals')
            /\ dashboard' = [kind |-> "tasks", done |-> {}]
            /\ pc' = "tasks"
  /\ UNCHANGED <<df, gsrc, growth, pct, fit, spark, chart, runs>>

\* _calculate_growth_metrics(daily_totals)
GrowthTask ==
  /\ pc = "tasks"
  /\ "growth" \notin dashboard.done
  /\ gsrc' = GrowthInputs(daily_totals)
  /\ growth' = CalculateGrowthMetricsOf(daily_totals)
  /\ dashboard' = [dashboard EXCEPT !.done = @ \cup {"growth"}]
  /\ UNCHANGED <<pc, df, daily_totals, pct, chartVars, chart, runs>>

\* prepare_wealth_timeline_data(time_series)
FitTask ==
  /\ pc = "tasks"
  /\ "fit" \notin dashboard.done
  /\ chart' = PrepareWealthTimelineDataOf(ts, TimeSeriesColumns)
  /\ fit' = chart'.fitParams
  /\ ts' = CallerFrame(ts)
  /\ dashboard' = [dashboard EXCEPT !.done = @ \cup {"fit"}]
  /\ UNCHANGED <<pc, loaderVars, pct, spark, runs>>

\* generate_all_backgrounds(dashboard_data)
SparklineTask ==
  /\ pc = "tasks"
  /\ "sparklines" \notin dashboard.done
  /\ spark' = GenerateAllBackgroundsOf(ts)
  /\ dashboard' = [dashboard EXCEPT !.done = @ \cup {"sparklines"}]
  /\ UNCHANGED <<pc, loaderVars, pct, ts, fit, chart, runs>>

\* the three results merged into the output record
MergeOutputs ==
  /\ pc = "tasks"
  /\ dashboard.done = Tasks
  /\ dashboard' = [kind |-> "dashboard",
                   metrics |-> [CalculateMetricsOf(daily_totals) EXCEPT
                                  !.growth_rate = growth.growth_rate,
                                  !.doubling_time = growth.doubling_time,
                                  !.daily_accumulation = growth.daily_accumulation],
                   time_series |-> ts,
                   charts |-> chart,
                   background_sparklines |-> spark,
                   analysis |-> AnalysisOf(growth.growth_rate)]
  /\ pc' = "merged"
  /\ UNCHANGED <<loaderVars, pct, chartVars, chart, runs>>

NextParallel == Aggregate \/ GrowthTask \/ FitTask \/ SparklineTask \/ MergeOutputs

SpecParallel == InitParallel /\ [][NextParallel]_vars

-----------------------------------------------------------------------------
(* _process_data, generate_all_backgrounds and _compute_daily_totals called  *)
(* on frames that may lack columns; in this specification df and ts are      *)
(* frames with their column sets                                             *)

\* the frames have at most MaxFrameRows rows
MaxFrameRows == 2

\* n rows of a time series, the last count zero
FrameSeries(n) ==
  [i \in 1..n |-> TsRow(3 * i - 2, Num(i * SCALE), IF i = n THEN Num(0) ELSE FromInt(2))]

FrameTable(n) == [i \in 1..n |-> Snap("A", i, 10 * i)]

TimeSeriesFrames ==
  {[columns |-> c, rows |-> Project(FrameSeries(n), c)] :
     c \in SUBSET TimeSeriesColumns, n \in 0..MaxFrameRows}

SnapshotFrames ==
  {[columns |-> c, rows |-> Project(FrameTable(n), c)] :
     c \in SUBSET SnapshotColumns, n \in 0..MaxFrameRows}

NoCall == [kind |-> "none"]

InitColumns ==
  /\ daily_totals = <<>> /\ gsrc = NoInputs /\ growth = NoGrowth
  /\ pct = NoPct /\ fit = NoFit /\ chart = NoChart /\ runs = NoRuns
  /\ \/ /\ pc = "process_data"
        /\ ts \in TimeSeriesFrames
        /\ \E config \in Configs : spark = [kind |-> "call", config |-> config, result |-> NoCall]
        /\ df = <<>> /\ dashboard = NoDashboard
     \/ /\ pc = "generate_all_backgrounds"
        /\ \/ \E frame \in TimeSeriesFrames :
                dashboard = [kind |-> "dashboard", time_series |-> frame]
           \/ dashboard = [kind |-> "dashboard"]
        /\ ts = EmptyFrame /\ df = <<>>
        /\ spark = [kind |-> "call", config |-> NoCall, result |-> NoCall]
     \/ /\ pc = "compute_daily_totals"
        /\ df \in SnapshotFrames
        /\ ts = <<>> /\ spark = NoSpark /\ dashboard = NoDashboard

\* self._process_data(time_series, config)
ProcessDataCall ==
  /\ pc = "process_data"
  /\ spark' = [spark EXCEPT !.result = ProcessDataFrame(ts, spark.config)]
  /\ pc' = IF spark'.result = KeyError THEN "raised" ELSE "returned"
  /\ UNCHANGED <<loaderVars, pct, ts, fit, chart, dashboard, runs>>

\* sparkline_gen.generate_all_backgrounds(dashboard_data)
GenerateAllBackgroundsCall ==
  /\ pc = "generate_all_backgrounds"
  /\ ts' = IF "time_series" \in DOMAIN dashboard THEN dashboard.time_series ELSE EmptyFrame
  /\ spark' = [spark EXCEPT !.result = GenerateAllBackgroundsFrame(dashboard)]
  /\ pc' = IF spark'.result = KeyError THEN "raised" ELSE "returned"
  /\ UNCHANGED <<loaderVars, pct, fit, chart, dashboard, runs>>

\* self._compute_daily_totals(df)
ComputeDailyTotalsCall ==
  /\ pc = "compute_daily_totals"
  /\ LET r == ComputeDailyTotalsFrame(df)
     IN  IF r = KeyError
           THEN pc' = "raised" /\ UNCHANGED daily_totals
           ELSE pc' = "returned" /\ daily_totals' = r.data
  /\ UNCHANGED <<df, gsrc, growth, pct, chartVars, chart, dashboard, runs>>

NextColumns == ProcessDataCall \/ GenerateAllBackgroundsCall \/ ComputeDailyTotalsCall

SpecColumns == InitColumns /\ [][NextColumns]_vars

-----------------------------------------------------------------------------
(* prepare_wealth_timeline_data applied to a time series that may carry the  *)
(* cpi_u and pce columns, its rows in any order                              *)

\* the series have at most MaxChartRows rows
MaxChartRows == 2

\* the last days of January and the second of February
ChartDates == {30, 31, 33}

ChartWealth == {Num(0), Num(SCALE), Num(2 * SCALE)}

\* the values of a price index: missing, zero, negative, positive
CpiValues == {NaN, Num(0), Num(2 * SCALE), Num((5 * SCALE) \div 2)}

PceValues == {NaN, Num(-SCALE), Num(3 * SCALE)}

\* the sequences of n distinct dates
DateOrders(n) ==
  {o \in [1..n -> ChartDates] : \A i, j \in 1..n : i # j => o[i] # o[j]}

\* series without a price index, every total and every order of the dates
TrendSeries ==
  UNION {
    {[i \in 1..n |-> TsRow(o[i], w[i], FromInt(2))] :
       o \in DateOrders(n), w \in [1..n -> ChartWealth]} :
    n \in 1..MaxChartRows}

InflationRow(d, w, cpi_u, pce) ==
  [date |-> d, total_wealth |-> w, billionaire_count |-> FromInt(2),
   cpi_u |-> cpi_u, pce |-> pce]

\* series of consecutive days, ascending or descending, with rising totals
\* and any subset of the two price index columns
InflationSeries ==
  UNION {
    {Project([i \in 1..n |->
                InflationRow(IF up THEN i ELSE n + 1 - i, FromInt(i), c[i], p[i])],
             TimeSeriesColumns \cup cols) :
       up \in BOOLEAN, c \in [1..n -> CpiValues], p \in [1..n -> PceValues],
       cols \in SUBSET {"cpi_u", "pce"}} :
    n \in 1..MaxChartRows}

\* df.columns of a frame that has rows
ColumnsOf(rows) == DOMAIN rows[1]

InitChart ==
  /\ pc = "series"
  /\ df = <<>> /\ daily_totals = <<>> /\ gsrc = NoInputs /\ growth = NoGrowth
  /\ pct = NoPct /\ fit = NoFit /\ spark = NoSpark
  /\ ts \in TrendSeries \cup InflationSeries
  /\ SiteIdle

\* chart_processor.prepare_wealth_timeline_data(time_series)
PrepareWealthTimelineDataCall ==
  /\ pc = "series"
  /\ chart' = PrepareWealthTimelineDataOf(ts, ColumnsOf(ts))
  /\ fit' = chart'.fitParams
  /\ ts' = CallerFrame(ts)
  /\ pc' = "charts"
  /\ UNCHANGED <<loaderVars, pct, spark, dashboard, runs>>

NextChart == PrepareWealthTimelineDataCall

SpecChart == InitChart /\ [][NextChart]_vars

-----------------------------------------------------------------------------
(* _process_data applied to series whose rows may lack the date or a metric *)

\* the series have at most MaxMissingRows rows
MaxMissingRows == 2

\* (total_wealth, billionaire_count) of a row: a missing total, a zero
\* count, both present
MissingPairs ==
  {<<NaN, Num(2 * SCALE)>>, <<Num(SCALE), Num(0)>>, <<Num(3 * SCALE), Num(2 * SCALE)>>}

\* ascending dates of which any may be missing
MissingSeries ==
  UNION {
    {[i \in 1..Cardinality(D) |->
        TsRow(IF gone[i] THEN NaT ELSE SortSet(D)[i], p[i][1], p[i][2])] :
       p \in [1..Cardinality(D) -> MissingPairs],
       gone \in [1..Cardinality(D) -> BOOLEAN]} :
    D \in {X \in SUBSET SparkDates : Cardinality(X) <= MaxMissingRows}}

InitMissing ==
  /\ SiteIdle
  /\ pc = "sparkline"
  /\ df = <<>> /\ daily_totals = <<>> /\ gsrc = NoInputs /\ growth = NoGrowth
  /\ pct = NoPct
  /\ ts \in MissingSeries
  /\ fit = NoFit
  /\ \E config \in Configs : spark = NewSpark(config)

NextMissing == ProcessData

SpecMissing == InitMissing /\ [][NextMissing]_vars

-----------------------------------------------------------------------------
(* Properties *)

RECURSIVE SumTotalWealth(_)
SumTotalWealth(rows) ==
  IF rows = <<>> THEN 0 ELSE Head(rows).total_wealth + SumTotalWealth(Tail(rows))

RECURSIVE SumFinalWorth(_)
SumFinalWorth(t) ==
  IF t = <<>> THEN 0 ELSE Head(t).finalWorth + SumFinalWorth(Tail(t))

\* C1: the total_wealth of the aggregated rows adds up to the finalWorth of all
\* input snapshots: no snapshot is lost or counted twice.
C1_SumConserved ==
  pc # "loaded" => SumTotalWealth(daily_totals) = SumFinalWorth(df)

\* C1 witness: three snapshots, two of them of one person on one date, have
\* been aggregated
C1_Witness ==
  /\ pc = "totals"
  /\ Len(df) = 3
  /\ Len(daily_totals) = 2
  /\ \E i, j \in DOMAIN df :
       i # j /\ df[i].crawl_date = df[j].crawl_date /\ df[i].personName = df[j].personName

RecordsDated(d) == {j \in DOMAIN df : df[j].crawl_date = d}

\* C2: one DailyTotal per distinct input date, strictly ascending by date,
\* whose count is the number of distinct persons dated d, never more than the
\* number of records dated d.
C2_OnePerDateAscending ==
  pc # "loaded" =>
    /\ \A j \in DOMAIN df :
         Cardinality({i \in DOMAIN daily_totals : daily_totals[i].date = df[j].crawl_date}) = 1
    /\ \A i \in DOMAIN daily_totals : RecordsDated(daily_totals[i].date) # {}
    /\ \A i \in DOMAIN daily_totals : \A j \in DOMAIN daily_totals :
         i < j => daily_totals[i].date < daily_totals[j].date
    /\ \A i \in DOMAIN daily_totals :
         LET recs == RecordsDated(daily_totals[i].date)
         IN  /\ daily_totals[i].billionaire_count =
                  Cardinality({df[j].personName : j \in recs})
             /\ daily_totals[i].billionaire_count <= Cardinality(recs)

\* C2 witness: a table given in descending date order, with one person recorded
\* twice on a date, has been aggregated
C2_Witness ==
  /\ pc = "totals"
  /\ Len(df) = 3
  /\ df[1].crawl_date > df[2].crawl_date
  /\ \E i \in DOMAIN daily_totals :
       daily_totals[i].billionaire_count < Cardinality(RecordsDated(daily_totals[i].date))

\* C3 (as claimed): the growth_rate returned is a number within [-50, 100]
C3_CagrWithinClamp ==
  pc = "metrics" =>
    /\ IsNum(growth.growth_rate)
    /\ CagrFloor * SCALE <= growth.growth_rate.v
    /\ growth.growth_rate.v <= CagrCeil * SCALE

\* C4: growth_rate <= 0 gives doubling_time = +inf and daily_accumulation = 0;
\* growth_rate > 0 gives doubling_time = ln 2 / ln(1 + growth_rate/100) and
\* daily_accumulation = (end_val - start_val) / (1000 * days_diff).
C4_DerivedFromCagr ==
  pc = "metrics" =>
    LET g == growth.growth_rate
    IN  /\ FLe(g, Num(0)) =>
             growth.doubling_time = PosInf /\ growth.daily_accumulation = Num(0)
        /\ FGt(g, Num(0)) =>
             /\ growth.doubling_time =
                  FDiv(Num(Ln2), FLog(Num(SCALE + g.v \div 100)))
             /\ growth.daily_accumulation =
                  Num(TruncDiv((gsrc.end_val - gsrc.start_val) * SCALE,
                               1000 * gsrc.days_diff * SCALE))

\* C4 witness: an unclamped positive growth rate with a finite doubling time
\* and a non-zero daily accumulation
C4_Witness ==
  /\ pc = "metrics"
  /\ IsNum(growth.growth_rate)
  /\ growth.growth_rate.v > 0
  /\ growth.growth_rate.v < CagrCeil * SCALE
  /\ IsNum(growth.doubling_time)
  /\ IsNum(growth.daily_accumulation) /\ growth.daily_accumulation.v # 0

\* C5: pct_change(new, old) is 0 when old = 0, and (new - old)/old*100 otherwise
\* (to the rounding of the division: |out*old - (new-old)*100| < 100*ulp*|old|)
C5_PctChange ==
  pc = "returned" =>
    /\ pct.old.v = 0 => pct.out = Num(0)
    /\ pct.old.v # 0 =>
         /\ IsNum(pct.out)
         /\ Abs(pct.out.v * pct.old.v - (pct.new.v - pct.old.v) * 100 * SCALE)
              < 100 * Abs(pct.old.v)

\* C5 witness: a call with old = 0 and new # 0 has returned
C5_Witness == pc = "returned" /\ pct.old.v = 0 /\ pct.new.v # 0

\* the rows of daily_totals in calendar month p
RowsOfMonth(p) == {i \in DOMAIN daily_totals : PeriodOf(daily_totals[i].date) = p}

FirstDateOfMonth(p) == SetMin({daily_totals[i].date : i \in RowsOfMonth(p)})

RECURSIVE WealthOver(_)
WealthOver(idx) ==
  IF idx = {} THEN 0
  ELSE LET i == CHOOSE x \in idx : TRUE
       IN  daily_totals[i].total_wealth + WealthOver(idx \ {i})

MeanWealthOfMonth(p) ==
  TruncDiv(WealthOver(RowsOfMonth(p)) * SCALE, Cardinality(RowsOfMonth(p)))

C7_ScenarioClamped ==
  /\ (df = ScenarioTable /\ pc # "loaded") =>
       daily_totals = <<Row(1, 30, 2), Row(2, 35, 2)>>
  /\ (df = ScenarioTable /\ pc = "metrics") =>
       growth.growth_rate = Num(100 * SCALE) /\ growth.doubling_time = Num(SCALE)
  /\ (/\ pc = "metrics"
      /\ gsrc.kind \in {"daily", "monthly"}
      /\ gsrc.days_diff # 0 /\ gsrc.start_val # 0
      /\ FGt(RawCagr(gsrc.start_val, gsrc.end_val, gsrc.days_diff), Num(100 * SCALE))) =>
       growth.growth_rate = Num(100 * SCALE) /\ growth.doubling_time = Num(SCALE)

\* C7 witness: the growth metrics of the scenario table have been computed
C7_Witness == pc = "metrics" /\ df = ScenarioTable /\ gsrc.days_diff = 1

PositiveWealth == {ts[i].total_wealth : i \in {j \in DOMAIN ts : FGt(ts[j].total_wealth, Num(0))}}

C9_SeventyValues ==
  pc \in {"resampled", "coords"} =>
    /\ Len(spark.data) = 70
    /\ ~spark.empty =>
         /\ spark.grid_len = 661 + 2 * 40
         /\ spark.conv_len = 780
         /\ spark.conv_len = spark.grid_len + 40 - 1
         /\ Len(spark.data) * 10 = spark.conv_len - 2 * 40

C9_Witness ==
  /\ pc = "resampled"
  /\ spark.valid_rows = LongSparkRows
  /\ Len(spark.data) = 70
  /\ spark.data[1] # spark.data[70]

\* the metric values of the valid rows, as _process_data reads them
SparkValues == MetricValues(DropNa(ts, spark.config.columns), spark.config)

SparkValidDates == {DropNa(ts, spark.config.columns)[i].date :
                      i \in DOMAIN DropNa(ts, spark.config.columns)}

\* the sparkline was drawn from a constant-valued series of 1+ valid rows
ConstantInput ==
  /\ pc = "coords"
  /\ SparkValues # <<>>
  /\ \A i \in DOMAIN SparkValues : SparkValues[i] = SparkValues[1]

\* C10 as stated: for a constant-valued series, a single valid row included,
\* the resampler's output and the normalized values are all zero, no nan,
\* every point has y = height - padding, and no division by zero occurs in
\* the time normalization or in the min-max normalization.
C10_ConstantAllZero ==
  ConstantInput =>
    /\ \A i \in DOMAIN spark.data : spark.data[i] = Num(0)
    /\ \A i \in DOMAIN spark.normalized : spark.normalized[i] = Num(0)
    /\ \A i \in DOMAIN spark.coords : spark.coords[i].y = FromInt(card_height - padding)
    /\ ~spark.zero_over_zero

\* C10 (amended): for a constant-valued series of one or more valid rows the
\* resampler's output is flat - 70 equal finite values, the constant times
\* the sum of the window weights, zero only for the constant zero - and the
\* normalized values are all zero without a division (max = min), so every
\* point has y = height - padding.  The time normalization evaluates 0/0
\* exactly when all valid rows share one date (a single valid row): the
\* time axis is then nan, which the one-point interpolation ignores.
C10_ConstantFlat ==
  ConstantInput =>
    /\ Len(spark.data) = target_points
    /\ LET c == SparkValues[1]
           flat == Num(TruncDiv(ConvTerms([j \in 1..wind_len |-> c], wind_len - 1, 0), SCALE))
       IN  \A i \in DOMAIN spark.data : IsNum(spark.data[i]) /\ spark.data[i] = flat
    /\ (spark.data[1] = Num(0)) <=> (SparkValues[1] = Num(0))
    /\ \A i \in DOMAIN spark.normalized : spark.normalized[i] = Num(0)
    /\ \A i \in DOMAIN spark.coords : spark.coords[i].y = FromInt(card_height - padding)
    /\ spark.zero_over_zero <=> Cardinality(SparkValidDates) = 1

C10_Witness ==
  /\ ConstantInput
  /\ spark.valid_rows = 1
  /\ spark.zero_over_zero
  /\ spark.data[1].v > 0
  /\ spark.coords[target_points].y = FromInt(card_height - padding)

\* the total_wealth values of the series the sparkline was drawn from
DistinctWealth == {ts[i].total_wealth : i \in DOMAIN ts}

\* C11 as stated: for a series v with two or more distinct values, c > 0 and
\* any offset d, the 70 (x, y) coordinates of c*v + d equal those of v.
C11_AffineEqual ==
  (pc = "both" /\ Cardinality(DistinctWealth) >= 2) =>
    /\ Len(spark.coords) = 70
    /\ spark.image_coords = spark.coords

\* C11 (amended): the coordinates of c*v + d equal those of v within the
\* rounding of the arithmetic: the same 70 x, and every y closer than
\* CoordTolerance (a hundredth of the plotted height) to its counterpart,
\* for a series of any number of distinct values.
C11_AffineWithinTolerance ==
  pc = "both" =>
    /\ Len(spark.coords) = 70
    /\ Len(spark.image_coords) = 70
    /\ \A i \in 1..70 :
         /\ spark.image_coords[i].x = spark.coords[i].x
         /\ IsNum(spark.coords[i].y) /\ IsNum(spark.image_coords[i].y)
         /\ Abs(spark.image_coords[i].y.v - spark.coords[i].y.v) <= CoordTolerance

C11_Witness ==
  /\ pc = "both"
  /\ Cardinality(DistinctWealth) >= 2
  /\ spark.d # Num(0)
  /\ spark.c # Num(SCALE)
  /\ spark.coords[1].y # spark.coords[70].y
  /\ spark.image_coords # spark.coords

C13_AnyOrderSameOutput ==
  /\ pc \in {"tasks", "merged"} =>
       /\ daily_totals = ComputeDailyTotalsOf(df)
       /\ ts = TimeSeriesOf(daily_totals)
  /\ pc = "merged" => dashboard = PrepareAllDataOf(df)

\* the sparklines were drawn after the trend fit, and the growth metrics last
C13_Witness ==
  /\ pc = "tasks"
  /\ dashboard.done = {"fit", "sparklines"}
  /\ Len(ts) = 2
  /\ chart.fitParams.kind = "fitted"
  /\ spark = GenerateAllBackgroundsOf(TimeSeriesOf(daily_totals))

\* C14: for every snapshot table with the required columns - an empty table,
\* a table with a single date and a table whose totals are zero included -
\* the aggregation and the metric, fit and sparkline computations complete
\* without raising and return the fallback values: growth rate 0 with an
\* infinite doubling time, the flat fit, sparklines of 70 finite points.
C14_CompletesWithFallbacks ==
  /\ pc # "raised"
  /\ pc = "done" =>
       /\ (Len(daily_totals) = 1 \/ daily_totals[1].total_wealth = 0) =>
            /\ dashboard.metrics.growth_rate = Num(0)
            /\ dashboard.metrics.doubling_time = PosInf
            /\ dashboard.metrics.daily_accumulation = Num(0)
       /\ Len(daily_totals) = 1 => dashboard.charts.fitParams = DegenerateFit
       /\ \A i \in DOMAIN dashboard.background_sparklines.total_wealth.points :
            IsNum(dashboard.background_sparklines.total_wealth.points[i].y)

\* the call made had a required column missing from its frame
ColumnMissing ==
  \/ /\ spark # NoSpark /\ spark.config # NoCall
     /\ ~(SelectedColumns(spark.config) \subseteq ts.columns)
  \/ /\ spark # NoSpark /\ spark.config = NoCall
     /\ ~(TimeSeriesColumns \subseteq ts.columns)
  \/ /\ spark = NoSpark
     /\ ~(SnapshotColumns \subseteq df.columns)

\* C15: when the date column or a configured metric column is absent from
\* the frame given to _process_data, generate_all_backgrounds or
\* _compute_daily_totals, the call raises and returns nothing - no zeros, no
\* default, also for a frame without rows; with the columns there it returns.
C15_MissingColumnRaises ==
  pc \in {"raised", "returned"} =>
    /\ ColumnMissing <=> pc = "raised"
    /\ pc = "raised" =>
         /\ daily_totals = <<>>
         /\ spark # NoSpark => spark.result = KeyError
    /\ (pc = "returned" /\ spark # NoSpark) => spark.result.kind = "ok"

\* the default pd.DataFrame() of generate_all_backgrounds, which has no column
C15_Witness ==
  /\ pc = "raised"
  /\ "time_series" \notin DOMAIN dashboard
  /\ dashboard # NoDashboard
  /\ ts = EmptyFrame
  /\ spark.result = KeyError

\* C16: the summary's totalIncrease is pct_change(last.total_wealth,
\* first.total_wealth) for every series: (last - first) / first * 100 when
\* the first total is not zero, and 0 when it is zero.
C16_TotalIncreaseIsPctChange ==
  chart # NoChart =>
    chart.summary.totalIncrease =
      PctChange(chart.summary.endValue, chart.summary.startValue)

PositiveRows == SelectSeq(WithDaysFromStart(ts), LAMBDA r : r.total_wealth.v > 0)

\* C18: with fewer than 2 rows of positive total_wealth the exponential fit
\* returns exactly a = 1, b = 0, r_squared = 0 and an annual growth rate of 0;
\* otherwise it is fitted to the rows of positive total_wealth and to no
\* other, so every logarithm taken is of a positive value.
C18_DegenerateOrPositiveRows ==
  pc = "fitted" =>
    /\ Len(PositiveRows) < 2 =>
         /\ fit.a = FromInt(1)
         /\ fit.b = Rat(0, 1)
         /\ fit.r_squared = Rat(0, 1)
         /\ fit.annualGrowthRate = Num(0)
         /\ fit.used = <<>>
    /\ Len(PositiveRows) >= 2 =>
         /\ fit.kind = "fitted"
         /\ fit.used = PositiveRows
         /\ \A i \in DOMAIN fit.used :
              /\ fit.used[i].total_wealth.v > 0
              /\ IsNum(FLog(fit.used[i].total_wealth))

\* three rows, the middle one with a total of zero, fitted on the other two
C18_Witness ==
  /\ pc = "fitted"
  /\ Len(ts) = 3
  /\ ts[2].total_wealth = Num(0)
  /\ Len(fit.used) = 2
  /\ fit.b.num # 0

\* the series in date order, its first date and its largest day offset
ChartSorted == SortByDate(ts)

ChartStart == ChartSorted[1].date

ChartRange == ChartSorted[Len(ts)].date - ChartStart

\* a date label is not after another: year, month and day compared in turn
LabelLe(x, y) ==
  \/ x[1] < y[1]
  \/ x[1] = y[1] /\ x[2] < y[2]
  \/ x[1] = y[1] /\ x[2] = y[2] /\ x[3] <= y[3]

\* C19: for every non-empty series and every fit the trend line has exactly
\* 100 samples; sample k (0..99) is at day offset k * R / 99, R the largest
\* day offset of the series, is labelled with the start date plus the whole
\* days of the offset and has the value a * exp(b * offset).  The first
\* sample is dated the start date and has the value a, the last is dated the
\* last date of the series, and the labels never go back.
C19_TrendLine ==
  pc = "charts" =>
    LET line == chart.trendLine
        a == chart.fitParams.a
        b == chart.fitParams.b
    IN  /\ Len(line) = 100
        /\ \A k \in 0..99 :
             /\ line[k + 1].x = Strftime(ChartStart + (k * ChartRange) \div 99)
             /\ line[k + 1].y =
                  FMul(a, FExp(Norm(TruncDiv(b.num * k * ChartRange, b.den * 99))))
        /\ line[1].x = Strftime(ChartStart)
        /\ line[1].y = a
        /\ line[100].x = Strftime(ChartSorted[Len(ts)].date)
        /\ \A k \in 1..99 : LabelLe(line[k].x, line[k + 1].x)

\* a rising fit over two dates in two months, given in descending order
C19_Witness ==
  /\ pc = "charts"
  /\ ts[1].date = 33 /\ ts[Len(ts)].date = 30
  /\ chart.fitParams.b.num > 0
  /\ chart.trendLine[1].x = <<2024, 1, 30>>
  /\ chart.trendLine[100].x = <<2024, 2, 2>>
  /\ FLt(chart.trendLine[1].y, chart.trendLine[100].y)

\* the column has a value in some row of the series
HasValue(col) == col \in ColumnsOf(ts) /\ \E i \in DOMAIN ts : ~IsNaN(ts[i][col])

\* the row numbers of the date-ordered series whose index is present and
\* positive, ascending
PositiveIndexRows(col) ==
  SortSet({i \in DOMAIN ChartSorted :
             IsNum(ChartSorted[i][col]) /\ ChartSorted[i][col].v > 0})

\* the first value of the column in date order
FirstValue(col) ==
  ChartSorted[SetMin({i \in DOMAIN ChartSorted : ~IsNaN(ChartSorted[i][col])})][col]

\* the inflation series is the adjustment of the totals by the column
AdjustedBy(col) ==
  LET rows == PositiveIndexRows(col)
      data == chart.inflationData.data
  IN  /\ chart.inflationData.baseValue = FirstValue(col)
      /\ Len(data) = Len(rows)
      /\ \A j \in DOMAIN rows :
           /\ data[j].x = Strftime(ChartSorted[rows[j]].date)
           /\ data[j].y = FMul(ChartSorted[rows[j]].total_wealth,
                               FDiv(FirstValue(col), ChartSorted[rows[j]][col]))

\* C20: the inflation adjustment uses cpi_u when that column is present and
\* has a value, else pce when that one is present and has a value; the base
\* is the first value of the column in date order, and the adjusted series
\* has exactly the rows whose index is present and positive, in date order,
\* each valued nominal * (base / index).  With neither column usable the
\* result is None.
C20_InflationAdjustment ==
  pc = "charts" =>
    /\ HasValue("cpi_u") =>
         chart.inflationData.inflationType = "CPI_U" /\ AdjustedBy("cpi_u")
    /\ (~HasValue("cpi_u") /\ HasValue("pce")) =>
         chart.inflationData.inflationType = "PCE" /\ AdjustedBy("pce")
    /\ (~HasValue("cpi_u") /\ ~HasValue("pce")) => chart.inflationData = None

\* cpi_u is there without a value, pce is used and its negative row dropped
C20_Witness ==
  /\ pc = "charts"
  /\ "cpi_u" \in ColumnsOf(ts) /\ ~HasValue("cpi_u")
  /\ chart.inflationData # None
  /\ chart.inflationData.inflationType = "PCE"
  /\ Len(ts) = 2
  /\ Len(chart.inflationData.data) = 1
  /\ \E i \in DOMAIN ts : ts[i].pce = Num(-SCALE)

\* the rows that have the date and every configured metric column
CompleteRows ==
  SelectSeq(ts, LAMBDA r : r.date # NaT /\ \A c \in DOMAIN spark.config.columns :
                             ~IsNaN(r[spark.config.columns[c]]))

\* C21: the resampler drops every row that lacks the date or a configured
\* metric column before it computes anything, so the rows it works on are
\* the complete rows; when none remains its output is 70 zeros; and for the
\* ratio a zero denominator counts as 1, so every value it divides to is
\* finite.
C21_MissingRowsDropped ==
  pc = "resampled" =>
    /\ spark.valid_rows = Len(CompleteRows)
    /\ CompleteRows = <<>> =>
         /\ Len(spark.data) = target_points
         /\ \A j \in DOMAIN spark.data : spark.data[j] = Num(0)
    /\ \A i \in DOMAIN CompleteRows :
         spark.config.type = "ratio" =>
           IsNum(FDiv(CompleteRows[i].total_wealth,
                      ReplaceZero(CompleteRows[i].billionaire_count)))

=============================================================================
